---------------------------- MODULE Spec2Model ----------------------------
(***************************************************************************)
(* Model of the document validation engine, DocumentValidator              *)
(* (src/app/services/validator.py), and of the values it handles           *)
(* (src/app/models/document.py).                                           *)
(*                                                                         *)
(* validate_document draws from Python's random module.  The draws one     *)
(* call receives are modelled as a tape: the sequence of values the        *)
(* random source delivers, in the order the call consumes them.            *)
(*   random.choice(seq)   -> the index drawn, in 0..len(seq)-1             *)
(*   random.random()      -> the float drawn, in tenths (r stands for r/10)*)
(*   random.randint(a, b) -> the integer drawn, in a..b                     *)
(***************************************************************************)
EXTENDS Integers, Sequences, FiniteSets, TLC

VARIABLES
    document,   \* the Document handed to validate_document
    tape,       \* the draws the random source delivers to one call
    result,     \* the ValidationResult of the latest call, or NoResult
    previous,   \* the ValidationResult of the call before it, or NoResult
    ncalls      \* validations run so far

vars == <<document, tape, result, previous, ncalls>>

(***************************************************************************)
(* Bounds of the model.                                                    *)
(***************************************************************************)
\* random.random() is drawn in tenths, up to MaxRandomTenths / 10.
MaxRandomTenths == 4
\* Validations of the same document with the same draws.
MaxCalls == 2

(***************************************************************************)
(* src/app/models/document.py                                              *)
(***************************************************************************)
BANK_STATEMENT == "bank_statement"
PAYSLIP == "payslip"
IRP == "irp"
PPSN == "ppsn"
TAX_RECORD == "tax_record"

DocumentType == {BANK_STATEMENT, PAYSLIP, IRP, PPSN, TAX_RECORD}

\* Values of document_type that are no member of DocumentType.
UnknownTypes == {"passport"}

\* customer_name as main.py fills it in: the form's value, or "Unknown".
CustomerNames == {"Unknown", "Aoife Byrne"}

Document(document_type, customer_name) ==
    [file_path |-> "uploads/document.pdf",
     document_type |-> document_type,
     customer_name |-> customer_name,
     customer_id |-> "Unknown"]

ValidationCheck(check_type, passed, details) ==
    [check_type |-> check_type, passed |-> passed, details |-> details]

ValidationResult(doc, is_valid, risk_score, checks, anomalies, recommendations) ==
    [document |-> doc,
     is_valid |-> is_valid,
     risk_score |-> risk_score,
     checks |-> checks,
     anomalies |-> anomalies,
     recommendations |-> recommendations]

NoResult == [none |-> TRUE]

(***************************************************************************)
(* The random source.                                                      *)
(***************************************************************************)
\* random.choice(seq), the index k drawn.
choice(seq, k) == seq[k + 1]

\* The two thresholds random.random() is compared with, 0.3 (the bank
\* statement's details) and 0.2 (every other details), in tenths.
threshold_0_3 == 3
threshold_0_2 == 2

\* random.random() > threshold, both in tenths.
random_gt(r, threshold_tenths) == r > threshold_tenths

\* The values random.randint(-10, 10) can return.
RiskVariation == -10..10

\* The values of random.random() modelled, in tenths: from the lower
\* threshold up.  A draw below 0.2 compares with both thresholds as 0.2 does.
RandomTenths == threshold_0_2..MaxRandomTenths

\* The draws of n probabilistic checks whose outcomes are chosen from lists
\* of k entries: per check the choice index, then the random() value.
RECURSIVE CheckDraws(_, _)
CheckDraws(n, k) ==
    IF n = 0 THEN {<<>>}
    ELSE {<<c, r>> \o t : c \in 0..(k - 1), r \in RandomTenths, t \in CheckDraws(n - 1, k)}

\* A whole tape: the draws of the checks, then the randint value.
TapeOf(n, k) == {d \o <<adj>> : d \in CheckDraws(n, k), adj \in RiskVariation}

(***************************************************************************)
(* src/app/services/validator.py: what the five _validate_* methods share  *)
(***************************************************************************)
max(a, b) == IF a >= b THEN a ELSE b
min(a, b) == IF a <= b THEN a ELSE b

\* Mutation: any() written for all().
all_passed_any(checks) == \E i \in 1..Len(checks) : checks[i].passed

\* all(check.passed for check in checks)
all_passed(checks) == \A i \in 1..Len(checks) : checks[i].passed

\* risk_score = max(0, min(100, risk_score))
clamp(risk_score) == max(0, min(100, risk_score))

\* The base risk and the step added for each check that did not pass, as
\* each _validate_* method writes them.
irp_base_risk == 20
irp_risk_step == 25
\* Mutation: the bank statement's base risk is the one pasted from _validate_irp.
base_risk_copied_from_irp == irp_base_risk
bank_statement_base_risk == 10
bank_statement_risk_step == 20
payslip_base_risk == 15
payslip_risk_step == 25
ppsn_base_risk == 15
ppsn_risk_step == 25
tax_record_base_risk == 25
tax_record_risk_step == 20

\* Mutation: the clamping line written with += for =.
calculate_risk_score_clamp_added(base, step, checks, adj) ==
    LET penalised[i \in 0..Len(checks)] ==
            IF i = 0 THEN base
            ELSE penalised[i - 1] + (IF ~checks[i].passed THEN step ELSE 0)
        varied == penalised[Len(checks)] + adj
    IN varied + clamp(varied)

\* Mutation: the step is added for every check, the test of passed left out.
calculate_risk_score_every_check(base, step, checks, adj) ==
    clamp(base + step * Len(checks) + adj)

\* Mutation: the score is kept on the validator and not reset: a call starts
\* from the score of the call before it.
calculate_risk_score_carried(base, step, checks, adj) ==
    LET start == IF result = NoResult THEN base ELSE result.risk_score
        penalised[i \in 0..Len(checks)] ==
            IF i = 0 THEN start
            ELSE penalised[i - 1] + (IF ~checks[i].passed THEN step ELSE 0)
    IN clamp(penalised[Len(checks)] + adj)

\* Mutation: the step taken off the score (-= written for +=).
unclamped_risk_score_step_subtracted(base, step, checks, adj) ==
    LET penalised[i \in 0..Len(checks)] ==
            IF i = 0 THEN base
            ELSE penalised[i - 1] - (IF ~checks[i].passed THEN step ELSE 0)
    IN penalised[Len(checks)] + adj

\* The score before the clamping line: the base risk, plus the step for each
\* check that did not pass, plus the random variation.
unclamped_risk_score(base, step, checks, adj) ==
    LET penalised[i \in 0..Len(checks)] ==
            IF i = 0 THEN base
            ELSE penalised[i - 1] + (IF ~checks[i].passed THEN step ELSE 0)
    IN penalised[Len(checks)] + adj

\* The base risk, plus the step for each check that did not pass, plus the
\* random variation, clamped.
calculate_risk_score(base, step, checks, adj) ==
    clamp(unclamped_risk_score(base, step, checks, adj))

\* Mutation: the test of passed left out of the anomalies loop.
generate_anomalies_unconditional(checks, messages) ==
    LET anomalies[i \in 0..Len(checks)] ==
            IF i = 0 THEN <<>>
            ELSE IF checks[i].check_type \in DOMAIN messages
                 THEN Append(anomalies[i - 1], messages[checks[i].check_type])
                 ELSE anomalies[i - 1]
    IN anomalies[Len(checks)]

\* The anomalies loop: messages maps the check types named in the if/elif
\* chain to the text appended for them.
generate_anomalies(checks, messages) ==
    LET anomalies[i \in 0..Len(checks)] ==
            IF i = 0 THEN <<>>
            ELSE IF ~checks[i].passed /\ checks[i].check_type \in DOMAIN messages
                 THEN Append(anomalies[i - 1], messages[checks[i].check_type])
                 ELSE anomalies[i - 1]
    IN anomalies[Len(checks)]

\* Mutation: the test of check_type left out.
any_failed_any_type(checks, check_type) ==
    \E i \in 1..Len(checks) : ~checks[i].passed

\* any(c.check_type == check_type and not c.passed for c in checks)
any_failed(checks, check_type) ==
    \E i \in 1..Len(checks) : checks[i].check_type = check_type /\ ~checks[i].passed

\* Mutation: the base message is appended inside the escalation test.
generate_recommendations_no_base(is_valid, checks, texts) ==
    IF is_valid THEN <<texts.valid>>
    ELSE IF any_failed(checks, texts.check_type) THEN <<texts.base, texts.escalation>>
         ELSE <<>>

\* The recommendations block.  texts holds what the method writes there: the
\* message of a valid document, the base message of an invalid one, and the
\* check whose failure adds the escalation message.
generate_recommendations(is_valid, checks, texts) ==
    IF is_valid THEN <<texts.valid>>
    ELSE IF any_failed(checks, texts.check_type) THEN <<texts.base, texts.escalation>>
         ELSE <<texts.base>>

(***************************************************************************)
(* _validate_bank_statement                                                *)
(***************************************************************************)
\* Mutation: passed of the two drawn checks read off the details draw, one
\* draw deciding both.
bank_statement_checks_one_draw(t) ==
    << ValidationCheck("Template Verification", TRUE,
                       "Document matches known bank statement template"),
       ValidationCheck("Logo Verification", TRUE,
                       "Bank logo position and appearance verified"),
       ValidationCheck("Account Number Format", TRUE, "IBAN format is valid"),
       ValidationCheck("Balance Calculation", random_gt(t[2], threshold_0_3),
                       IF random_gt(t[2], threshold_0_3)
                       THEN "Opening balance + transactions = closing balance"
                       ELSE "Discrepancy detected in balance calculation"),
       ValidationCheck("Transaction Pattern Analysis", random_gt(t[4], threshold_0_3),
                       IF random_gt(t[4], threshold_0_3)
                       THEN "Transaction patterns appear normal"
                       ELSE "Unusual transaction patterns detected") >>

bank_statement_checks(t) ==
    << ValidationCheck("Template Verification", TRUE,
                       "Document matches known bank statement template"),
       ValidationCheck("Logo Verification", TRUE,
                       "Bank logo position and appearance verified"),
       ValidationCheck("Account Number Format", TRUE, "IBAN format is valid"),
       ValidationCheck("Balance Calculation", choice(<<TRUE, FALSE>>, t[1]),
                       IF random_gt(t[2], threshold_0_3)
                       THEN "Opening balance + transactions = closing balance"
                       ELSE "Discrepancy detected in balance calculation"),
       ValidationCheck("Transaction Pattern Analysis", choice(<<TRUE, FALSE>>, t[3]),
                       IF random_gt(t[4], threshold_0_3)
                       THEN "Transaction patterns appear normal"
                       ELSE "Unusual transaction patterns detected") >>

bank_statement_anomalies ==
    ("Balance Calculation" :>
        "Balance discrepancy: Opening balance + transactions does not equal closing balance")
    @@ ("Transaction Pattern Analysis" :>
        "Unusual pattern: Multiple large round-sum deposits detected")

bank_statement_recommendations ==
    [valid |-> "Document appears valid - proceed with standard processing",
     base |-> "Request additional verification from customer",
     check_type |-> "Balance Calculation",
     escalation |-> "Verify transaction history with issuing bank"]

_validate_bank_statement(doc, t) ==
    LET checks == bank_statement_checks(t)
        is_valid == all_passed(checks)
    IN ValidationResult(doc, is_valid,
           calculate_risk_score(bank_statement_base_risk, bank_statement_risk_step, checks, t[5]),
           checks,
           generate_anomalies(checks, bank_statement_anomalies),
           generate_recommendations(is_valid, checks, bank_statement_recommendations))

(***************************************************************************)
(* _validate_payslip                                                       *)
(***************************************************************************)
payslip_checks(t) ==
    << ValidationCheck("Employer Verification", choice(<<TRUE, TRUE, FALSE>>, t[1]),
                       IF random_gt(t[2], threshold_0_2)
                       THEN "Employer details match registered business"
                       ELSE "Employer details could not be verified"),
       ValidationCheck("Tax Calculation", choice(<<TRUE, TRUE, FALSE>>, t[3]),
                       IF random_gt(t[4], threshold_0_2)
                       THEN "Tax calculations are correct"
                       ELSE "Discrepancies found in tax calculations"),
       ValidationCheck("Salary Consistency", choice(<<TRUE, TRUE, FALSE>>, t[5]),
                       IF random_gt(t[6], threshold_0_2)
                       THEN "Salary figures are consistent throughout document"
                       ELSE "Inconsistent salary figures detected"),
       ValidationCheck("Document Format", TRUE,
                       "Document format matches standard payslip format") >>

payslip_anomalies ==
    ("Employer Verification" :> "Employer not found in registered business database")
    @@ ("Tax Calculation" :>
        "Tax calculation does not match standard rates for income level")
    @@ ("Salary Consistency" :>
        "Gross salary does not match sum of net pay and deductions")

payslip_recommendations ==
    [valid |-> "Payslip appears valid - proceed with standard processing",
     base |-> "Request additional verification from customer",
     check_type |-> "Employer Verification",
     escalation |-> "Verify employer existence through Companies Registration Office"]

_validate_payslip(doc, t) ==
    LET checks == payslip_checks(t)
        is_valid == all_passed(checks)
    IN ValidationResult(doc, is_valid,
           calculate_risk_score(payslip_base_risk, payslip_risk_step, checks, t[7]),
           checks,
           generate_anomalies(checks, payslip_anomalies),
           generate_recommendations(is_valid, checks, payslip_recommendations))

(***************************************************************************)
(* _validate_irp                                                           *)
(***************************************************************************)
irp_checks(t) ==
    << ValidationCheck("Document Format", TRUE,
                       "Document format matches official IRP card format"),
       ValidationCheck("Security Features", choice(<<TRUE, TRUE, FALSE>>, t[1]),
                       IF random_gt(t[2], threshold_0_2)
                       THEN "Security features present and valid"
                       ELSE "One or more security features could not be verified"),
       ValidationCheck("Expiration Date", choice(<<TRUE, TRUE, FALSE>>, t[3]),
                       IF random_gt(t[4], threshold_0_2)
                       THEN "IRP is current and not expired"
                       ELSE "IRP appears to be expired"),
       ValidationCheck("GNIB Number Format", TRUE, "GNIB number format is valid") >>

irp_anomalies ==
    ("Security Features" :> "Missing or altered security features detected")
    @@ ("Expiration Date" :>
        "Document appears to be expired or date has been altered")

irp_recommendations ==
    [valid |-> "IRP appears valid - proceed with standard processing",
     base |-> "Request physical verification of original document",
     check_type |-> "Security Features",
     escalation |-> "Escalate to fraud department for detailed investigation"]

_validate_irp(doc, t) ==
    LET checks == irp_checks(t)
        is_valid == all_passed(checks)
    IN ValidationResult(doc, is_valid,
           calculate_risk_score(irp_base_risk, irp_risk_step, checks, t[5]),
           checks,
           generate_anomalies(checks, irp_anomalies),
           generate_recommendations(is_valid, checks, irp_recommendations))

(***************************************************************************)
(* _validate_ppsn                                                          *)
(***************************************************************************)
\* Mutation: the PPSN Format check takes the draw of the Name Matching check.
ppsn_checks_format_drawn(t) ==
    << ValidationCheck("PPSN Format", choice(<<TRUE, TRUE, FALSE>>, t[1]),
                       "PPSN format is valid (7 digits + 1-2 letters)"),
       ValidationCheck("Document Format", TRUE,
                       "Document format matches official PPSN documentation"),
       ValidationCheck("Name Matching", choice(<<TRUE, TRUE, FALSE>>, t[1]),
                       IF random_gt(t[2], threshold_0_2)
                       THEN "Name on document matches application name"
                       ELSE "Name discrepancy detected"),
       ValidationCheck("DOB Consistency", choice(<<TRUE, TRUE, FALSE>>, t[3]),
                       IF random_gt(t[4], threshold_0_2)
                       THEN "Date of birth is consistent with other documents"
                       ELSE "Date of birth discrepancy detected") >>

ppsn_checks(t) ==
    << ValidationCheck("PPSN Format", TRUE,
                       "PPSN format is valid (7 digits + 1-2 letters)"),
       ValidationCheck("Document Format", TRUE,
                       "Document format matches official PPSN documentation"),
       ValidationCheck("Name Matching", choice(<<TRUE, TRUE, FALSE>>, t[1]),
                       IF random_gt(t[2], threshold_0_2)
                       THEN "Name on document matches application name"
                       ELSE "Name discrepancy detected"),
       ValidationCheck("DOB Consistency", choice(<<TRUE, TRUE, FALSE>>, t[3]),
                       IF random_gt(t[4], threshold_0_2)
                       THEN "Date of birth is consistent with other documents"
                       ELSE "Date of birth discrepancy detected") >>

ppsn_anomalies ==
    ("Name Matching" :> "Name on PPSN document does not match name on application")
    @@ ("DOB Consistency" :>
        "Date of birth on PPSN document does not match other provided documents")

ppsn_recommendations ==
    [valid |-> "PPSN document appears valid - proceed with standard processing",
     base |-> "Request additional identification documents",
     check_type |-> "Name Matching",
     escalation |-> "Verify name change documentation if applicable"]

_validate_ppsn(doc, t) ==
    LET checks == ppsn_checks(t)
        is_valid == all_passed(checks)
    IN ValidationResult(doc, is_valid,
           calculate_risk_score(ppsn_base_risk, ppsn_risk_step, checks, t[5]),
           checks,
           generate_anomalies(checks, ppsn_anomalies),
           generate_recommendations(is_valid, checks, ppsn_recommendations))

(***************************************************************************)
(* _validate_tax_record                                                    *)
(***************************************************************************)
tax_record_checks(t) ==
    << ValidationCheck("Document Format", TRUE,
                       "Document format matches official tax record format"),
       ValidationCheck("Tax Year Verification", TRUE, "Tax year is current or recent"),
       ValidationCheck("Income Consistency", choice(<<TRUE, TRUE, FALSE>>, t[1]),
                       IF random_gt(t[2], threshold_0_2)
                       THEN "Income figures are consistent with other documents"
                       ELSE "Income discrepancies detected"),
       ValidationCheck("Tax Calculation", choice(<<TRUE, TRUE, FALSE>>, t[3]),
                       IF random_gt(t[4], threshold_0_2)
                       THEN "Tax calculations appear correct"
                       ELSE "Tax calculation anomalies detected"),
       ValidationCheck("Official Stamps/Watermarks", choice(<<TRUE, TRUE, FALSE>>, t[5]),
                       IF random_gt(t[6], threshold_0_2)
                       THEN "Official stamps/watermarks verified"
                       ELSE "Official stamps/watermarks could not be verified") >>

\* Mutation: the elif of Official Stamps/Watermarks left out of the loop.
tax_record_anomalies_no_stamps ==
    ("Income Consistency" :> "Reported income does not match income on other documents")
    @@ ("Tax Calculation" :>
        "Tax amounts do not align with standard calculation for reported income")

tax_record_anomalies ==
    ("Income Consistency" :> "Reported income does not match income on other documents")
    @@ ("Tax Calculation" :>
        "Tax amounts do not align with standard calculation for reported income")
    @@ ("Official Stamps/Watermarks" :>
        "Document lacks proper official authentication markers")

tax_record_recommendations ==
    [valid |-> "Tax record appears valid - proceed with standard processing",
     base |-> "Request additional verification from tax authority",
     check_type |-> "Income Consistency",
     escalation |-> "Cross-verify income with payslips and bank statements"]

_validate_tax_record(doc, t) ==
    LET checks == tax_record_checks(t)
        is_valid == all_passed(checks)
    IN ValidationResult(doc, is_valid,
           calculate_risk_score(tax_record_base_risk, tax_record_risk_step, checks, t[7]),
           checks,
           generate_anomalies(checks, tax_record_anomalies),
           generate_recommendations(is_valid, checks, tax_record_recommendations))

(***************************************************************************)
(* validate_document                                                       *)
(***************************************************************************)
unknown_type_result(doc) ==
    ValidationResult(doc, FALSE, 100,
        << ValidationCheck("Document Type", FALSE, "Unknown document type") >>,
        << "Unknown document type" >>,
        << "Please select a valid document type" >>)

\* Mutation: the else branch left out, the bank statement's method the default.
validate_document_no_default(doc, t) ==
    IF doc.document_type = PAYSLIP THEN _validate_payslip(doc, t)
    ELSE IF doc.document_type = IRP THEN _validate_irp(doc, t)
    ELSE IF doc.document_type = PPSN THEN _validate_ppsn(doc, t)
    ELSE IF doc.document_type = TAX_RECORD THEN _validate_tax_record(doc, t)
    ELSE _validate_bank_statement(doc, t)

validate_document(doc, t) ==
    IF doc.document_type = BANK_STATEMENT THEN _validate_bank_statement(doc, t)
    ELSE IF doc.document_type = PAYSLIP THEN _validate_payslip(doc, t)
    ELSE IF doc.document_type = IRP THEN _validate_irp(doc, t)
    ELSE IF doc.document_type = PPSN THEN _validate_ppsn(doc, t)
    ELSE IF doc.document_type = TAX_RECORD THEN _validate_tax_record(doc, t)
    ELSE unknown_type_result(doc)

(***************************************************************************)
(* The state machine: a document and the draws of its validation are       *)
(* fixed at the start; the validator (main.py keeps one instance for every *)
(* upload) validates the document, and validates it again with the random  *)
(* source delivering the same draws.                                       *)
(***************************************************************************)
\* The tapes a validation of a document of this type can receive.  A call
\* on an unknown type consumes no draw: whatever the random source holds
\* (here, what a bank statement would consume) is left unread.
Tapes(document_type) ==
    CASE document_type = BANK_STATEMENT -> TapeOf(2, 2)
      [] document_type = PAYSLIP -> TapeOf(3, 3)
      [] document_type = IRP -> TapeOf(2, 3)
      [] document_type = PPSN -> TapeOf(2, 3)
      [] document_type = TAX_RECORD -> TapeOf(3, 3)
      [] OTHER -> TapeOf(2, 2)

Init ==
    /\ \E document_type \in DocumentType \cup UnknownTypes, customer_name \in CustomerNames :
          /\ document = Document(document_type, customer_name)
          /\ tape \in Tapes(document_type)
    /\ result = NoResult
    /\ previous = NoResult
    /\ ncalls = 0

Validate ==
    /\ ncalls < MaxCalls
    /\ result' = validate_document(document, tape)
    /\ previous' = result
    /\ ncalls' = ncalls + 1
    /\ UNCHANGED <<document, tape>>

Next == Validate

Spec == Init /\ [][Next]_vars

(***************************************************************************)
(* One upload: the document main.py builds when the customer name is left  *)
(* empty, validated once.  The properties that redraw a validation's tape  *)
(* are checked here, where each document and tape occurs in one result.    *)
(***************************************************************************)
InitOnce == Init /\ document.customer_name = "Unknown"

ValidateOnce == ncalls = 0 /\ Validate

SpecOnce == InitOnce /\ [][ValidateOnce]_vars

(***************************************************************************)
(* Properties.  What the formulas below read of a state.                   *)
(***************************************************************************)
\* validate_document has returned.
Returned == result # NoResult

\* The document is of one of the five known types.
KnownType == document.document_type \in DocumentType

\* The checks of the result that did not pass, by position.
FailedChecks == {i \in 1..Len(result.checks) : ~result.checks[i].passed}

\* The value random.randint(-10, 10) returned to the call.
DrawnVariation == tape[Len(tape)]

(***************************************************************************)
(* C1: for each of the five known document types and every outcome of the  *)
(* draws, is_valid of the returned result is the conjunction of passed     *)
(* over all checks of the result.                                          *)
(***************************************************************************)
C1_IsValidIsConjunction ==
    (Returned /\ KnownType) =>
        (result.is_valid <=> FailedChecks = {})

\* An invalid result of a known type in which some checks passed and some
\* did not.
C1_Witness ==
    /\ Returned /\ KnownType
    /\ ~result.is_valid
    /\ FailedChecks # {}
    /\ Cardinality(FailedChecks) < Len(result.checks)

(***************************************************************************)
(* C2: for every document type, known or unknown, and every outcome of the *)
(* draws, risk_score of the returned result is an integer in 0..100.       *)
(***************************************************************************)
C2_RiskScoreInRange ==
    Returned => result.risk_score \in 0..100

\* A payslip with its three drawn checks failed and the variation at its
\* highest: the score reaches 100.
C2_Witness ==
    /\ Returned
    /\ document.document_type = PAYSLIP
    /\ Cardinality(FailedChecks) = 3
    /\ DrawnVariation = 10
    /\ result.risk_score = 100

(***************************************************************************)
(* C3: a document of none of the five known types gets a fixed result,     *)
(* whatever the random source holds: is_valid false, risk_score 100, one   *)
(* check "Document Type" with passed false, one anomaly and one            *)
(* recommendation.                                                         *)
(***************************************************************************)
C3_UnknownTypeFixedResult ==
    (Returned /\ ~KnownType) =>
        /\ result.is_valid = FALSE
        /\ result.risk_score = 100
        /\ Len(result.checks) = 1
        /\ result.checks[1].check_type = "Document Type"
        /\ result.checks[1].passed = FALSE
        /\ result.checks[1].details = "Unknown document type"
        /\ result.anomalies = << "Unknown document type" >>
        /\ result.recommendations = << "Please select a valid document type" >>

\* A result returned for an unknown type while the random source held draws
\* that fail a bank statement's checks.
C3_Witness ==
    /\ Returned /\ ~KnownType
    /\ tape[1] = 1 /\ tape[3] = 1 /\ DrawnVariation = -10
    /\ result.risk_score = 100

(***************************************************************************)
(* C4: for each known type, risk_score is base + step * (number of checks  *)
(* with passed false) + adj clamped to 0..100, adj the drawn variation and *)
(* (base, step) fixed per type: bank_statement (10, 20), payslip (15, 25), *)
(* irp (20, 25), ppsn (15, 25), tax_record (25, 20).                       *)
(***************************************************************************)
C4_Base(document_type) ==
    CASE document_type = BANK_STATEMENT -> 10
      [] document_type = PAYSLIP -> 15
      [] document_type = IRP -> 20
      [] document_type = PPSN -> 15
      [] document_type = TAX_RECORD -> 25

C4_Step(document_type) ==
    CASE document_type = BANK_STATEMENT -> 20
      [] document_type = PAYSLIP -> 25
      [] document_type = IRP -> 25
      [] document_type = PPSN -> 25
      [] document_type = TAX_RECORD -> 20

C4_Clamped(x) == IF x < 0 THEN 0 ELSE IF x > 100 THEN 100 ELSE x

C4_RiskScoreFormula ==
    (Returned /\ KnownType) =>
        result.risk_score =
            C4_Clamped(C4_Base(document.document_type)
                       + C4_Step(document.document_type) * Cardinality(FailedChecks)
                       + DrawnVariation)

\* A tax record with two checks failed and a negative variation.
C4_Witness ==
    /\ Returned
    /\ document.document_type = TAX_RECORD
    /\ Cardinality(FailedChecks) = 2
    /\ DrawnVariation = -7
    /\ result.risk_score = 58

(***************************************************************************)
(* C5: for a bank statement whose five checks all passed, risk_score lies  *)
(* in 0..20 (base 10, give or take 10) for every value of the variation.   *)
(***************************************************************************)
C5_BankStatementAllPassedRange ==
    (Returned /\ document.document_type = BANK_STATEMENT /\ FailedChecks = {}) =>
        result.risk_score \in 0..20

\* A bank statement with all five checks passed and the variation at its
\* highest.
C5_Witness ==
    /\ Returned
    /\ document.document_type = BANK_STATEMENT
    /\ Len(result.checks) = 5
    /\ FailedChecks = {}
    /\ DrawnVariation = 10
    /\ result.risk_score = 20

(***************************************************************************)
(* C6: for every document type, recommendations has exactly one entry when *)
(* is_valid is true and at least one when is_valid is false.               *)
(***************************************************************************)
C6_RecommendationCount ==
    Returned =>
        /\ result.is_valid => Len(result.recommendations) = 1
        /\ ~result.is_valid => Len(result.recommendations) >= 1

\* An invalid result of a known type whose escalation check passed: the base
\* message is its only recommendation.
C6_Witness ==
    /\ Returned /\ KnownType
    /\ ~result.is_valid
    /\ Len(result.recommendations) = 1

(***************************************************************************)
(* C7: for each known type, anomalies is exactly the fixed message of each *)
(* failing check whose check_type the type's anomalies loop names, in the  *)
(* order of the checks, and nothing else; so it is no longer than the      *)
(* number of such checks and it is empty when is_valid is true.            *)
(***************************************************************************)
\* The check types the anomalies loop of the type names, with their messages.
C7_AnomalyMessages(document_type) ==
    CASE document_type = BANK_STATEMENT -> bank_statement_anomalies
      [] document_type = PAYSLIP -> payslip_anomalies
      [] document_type = IRP -> irp_anomalies
      [] document_type = PPSN -> ppsn_anomalies
      [] document_type = TAX_RECORD -> tax_record_anomalies

\* The failing checks of the result that the loop names, in order.
C7_FailingMapped ==
    LET messages == C7_AnomalyMessages(document.document_type)
    IN SelectSeq(result.checks,
                 LAMBDA c : ~c.passed /\ c.check_type \in DOMAIN messages)

C7_AnomaliesAreFailingMapped ==
    (Returned /\ KnownType) =>
        LET messages == C7_AnomalyMessages(document.document_type)
            failing == C7_FailingMapped
        IN /\ Len(result.anomalies) = Len(failing)
           /\ \A i \in 1..Len(failing) :
                 result.anomalies[i] = messages[failing[i].check_type]
           /\ Len(result.anomalies) <= Len(failing)
           /\ result.is_valid => result.anomalies = <<>>

\* A tax record whose first drawn check passed and whose other two failed:
\* two anomalies, in the order of the checks.
C7_Witness ==
    /\ Returned
    /\ document.document_type = TAX_RECORD
    /\ FailedChecks = {4, 5}
    /\ result.anomalies =
          << "Tax amounts do not align with standard calculation for reported income",
             "Document lacks proper official authentication markers" >>

(***************************************************************************)
(* C8: for each known type, an invalid result's recommendations start with *)
(* the type's base message, followed by the type's escalation message if   *)
(* and only if the type's designated check failed (bank_statement: Balance *)
(* Calculation; payslip: Employer Verification; irp: Security Features;    *)
(* ppsn: Name Matching; tax_record: Income Consistency); a valid result's  *)
(* recommendations are the single 'appears valid' message, without the     *)
(* escalation message.                                                     *)
(***************************************************************************)
C8_DesignatedCheck(document_type) ==
    CASE document_type = BANK_STATEMENT -> "Balance Calculation"
      [] document_type = PAYSLIP -> "Employer Verification"
      [] document_type = IRP -> "Security Features"
      [] document_type = PPSN -> "Name Matching"
      [] document_type = TAX_RECORD -> "Income Consistency"

\* The texts the recommendations block of the type writes.
C8_Texts(document_type) ==
    CASE document_type = BANK_STATEMENT -> bank_statement_recommendations
      [] document_type = PAYSLIP -> payslip_recommendations
      [] document_type = IRP -> irp_recommendations
      [] document_type = PPSN -> ppsn_recommendations
      [] document_type = TAX_RECORD -> tax_record_recommendations

C8_DesignatedFailed ==
    \E i \in FailedChecks :
        result.checks[i].check_type = C8_DesignatedCheck(document.document_type)

C8_HasEscalation ==
    \E i \in 1..Len(result.recommendations) :
        result.recommendations[i] = C8_Texts(document.document_type).escalation

C8_Recommendations ==
    (Returned /\ KnownType) =>
        LET texts == C8_Texts(document.document_type)
        IN /\ ~result.is_valid =>
                /\ result.recommendations[1] = texts.base
                /\ C8_HasEscalation <=> C8_DesignatedFailed
                /\ C8_DesignatedFailed => result.recommendations = <<texts.base, texts.escalation>>
                /\ ~C8_DesignatedFailed => result.recommendations = <<texts.base>>
           /\ result.is_valid =>
                /\ result.recommendations = <<texts.valid>>
                /\ ~C8_HasEscalation

\* An invalid IRP whose Security Features check passed: Expiration Date
\* failed, and the base message stands alone.
C8_Witness ==
    /\ Returned
    /\ document.document_type = IRP
    /\ FailedChecks = {3}
    /\ result.recommendations = << "Request physical verification of original document" >>

C10_CheckTypes(document_type) ==
    CASE document_type = BANK_STATEMENT ->
            << "Template Verification", "Logo Verification", "Account Number Format",
               "Balance Calculation", "Transaction Pattern Analysis" >>
      [] document_type = PAYSLIP ->
            << "Employer Verification", "Tax Calculation", "Salary Consistency",
               "Document Format" >>
      [] document_type = IRP ->
            << "Document Format", "Security Features", "Expiration Date",
               "GNIB Number Format" >>
      [] document_type = PPSN ->
            << "PPSN Format", "Document Format", "Name Matching", "DOB Consistency" >>
      [] document_type = TAX_RECORD ->
            << "Document Format", "Tax Year Verification", "Income Consistency",
               "Tax Calculation", "Official Stamps/Watermarks" >>

C10_FormatChecks ==
    { "Template Verification", "Logo Verification", "Account Number Format",
      "Document Format", "GNIB Number Format", "PPSN Format", "Tax Year Verification" }

C10_CheckCount(document_type) ==
    CASE document_type = BANK_STATEMENT -> 5
      [] document_type = PAYSLIP -> 4
      [] document_type = IRP -> 4
      [] document_type = PPSN -> 4
      [] document_type = TAX_RECORD -> 5

C10_FixedChecks ==
    (Returned /\ KnownType) =>
        LET types == C10_CheckTypes(document.document_type)
        IN /\ Len(result.checks) = C10_CheckCount(document.document_type)
           /\ Len(result.checks) = Len(types)
           /\ \A i \in 1..Len(types) : result.checks[i].check_type = types[i]
           /\ \A i \in 1..Len(result.checks) :
                 result.checks[i].check_type \in C10_FormatChecks => result.checks[i].passed
           /\ \A i \in FailedChecks : result.checks[i].check_type \notin C10_FormatChecks

\* A PPSN document both of whose drawn checks failed while its two format
\* checks passed.
C10_Witness ==
    /\ Returned
    /\ document.document_type = PPSN
    /\ FailedChecks = {3, 4}
    /\ result.checks[1].passed /\ result.checks[2].passed

(***************************************************************************)
(* C11: for each of the five known types the score before the clamping     *)
(* line, base + step * failed + adj, already lies in 0..100 for every      *)
(* number of failed checks the type can have and every adj in -10..10      *)
(* (bank_statement 0..60, payslip 5..100, irp 10..80, ppsn 5..75,          *)
(* tax_record 15..95), so max(0, min(100, .)) never changes the value.     *)
(***************************************************************************)
C11_BaseRisk(document_type) ==
    CASE document_type = BANK_STATEMENT -> bank_statement_base_risk
      [] document_type = PAYSLIP -> payslip_base_risk
      [] document_type = IRP -> irp_base_risk
      [] document_type = PPSN -> ppsn_base_risk
      [] document_type = TAX_RECORD -> tax_record_base_risk

C11_RiskStep(document_type) ==
    CASE document_type = BANK_STATEMENT -> bank_statement_risk_step
      [] document_type = PAYSLIP -> payslip_risk_step
      [] document_type = IRP -> irp_risk_step
      [] document_type = PPSN -> ppsn_risk_step
      [] document_type = TAX_RECORD -> tax_record_risk_step

\* The range the claim gives for the type.
C11_Range(document_type) ==
    CASE document_type = BANK_STATEMENT -> 0..60
      [] document_type = PAYSLIP -> 5..100
      [] document_type = IRP -> 10..80
      [] document_type = PPSN -> 5..75
      [] document_type = TAX_RECORD -> 15..95

\* The score the call held before its clamping line, from the checks it
\* returned and the variation it drew.
C11_Unclamped ==
    unclamped_risk_score(C11_BaseRisk(document.document_type),
                         C11_RiskStep(document.document_type),
                         result.checks, DrawnVariation)

C11_ClampChangesNothing ==
    (Returned /\ KnownType) =>
        /\ C11_Unclamped \in 0..100
        /\ C11_Unclamped \in C11_Range(document.document_type)
        /\ clamp(C11_Unclamped) = C11_Unclamped
        /\ result.risk_score = C11_Unclamped

\* A bank statement with no failed check and the variation at its lowest:
\* the score before the clamp is 0, the lower end of the range.
C11_Witness ==
    /\ Returned
    /\ document.document_type = BANK_STATEMENT
    /\ FailedChecks = {}
    /\ DrawnVariation = -10
    /\ C11_Unclamped = 0
    /\ result.risk_score = 0

(***************************************************************************)
(* C12: for each of the five known types, every check that can come out    *)
(* with passed false is named in the type's anomalies loop; so in every    *)
(* result the number of anomalies is the number of failed checks, and      *)
(* anomalies is empty if and only if is_valid is true.                     *)
(***************************************************************************)
C12_EveryFailureHasAnomaly ==
    (Returned /\ KnownType) =>
        /\ Len(result.anomalies) = Cardinality(FailedChecks)
        /\ (result.anomalies = <<>>) <=> result.is_valid

\* A tax record whose three drawn checks all failed: three anomalies.
C12_Witness ==
    /\ Returned
    /\ document.document_type = TAX_RECORD
    /\ FailedChecks = {3, 4, 5}
    /\ Len(result.anomalies) = 3
    /\ ~result.is_valid

(***************************************************************************)
(* C13: passed and details of every drawn check come from two separate     *)
(* draws, so the four combinations of the two are all reachable: a check   *)
(* with passed true may carry the failure text and a check with passed     *)
(* false the success text; is_valid, risk_score, anomalies and             *)
(* recommendations follow passed only, never the details text.             *)
(***************************************************************************)
\* The drawn checks of the result, by position: those that are no format or
\* template check.
C13_DrawnChecks ==
    {i \in 1..Len(result.checks) : result.checks[i].check_type \notin C10_FormatChecks}

\* The check at position i is the j-th drawn check: the tape holds its choice
\* index at 2j - 1 and its random() value at 2j.
C13_DrawOf(i) == Cardinality({k \in C13_DrawnChecks : k <= i})

\* The indices random.choice can draw for the type's checks.
C13_ChoiceIndices ==
    IF document.document_type = BANK_STATEMENT THEN 0..1 ELSE 0..2

\* The tape of the state with the two draws of the j-th drawn check replaced.
C13_Redrawn(j, c, r) ==
    [k \in 1..Len(tape) |->
        IF k = 2 * j - 1 THEN c ELSE IF k = 2 * j THEN r ELSE tape[k]]

\* What validate_document returns for each redraw of the check at position i.
C13_Outcomes(i) ==
    [c \in C13_ChoiceIndices, r \in RandomTenths |->
        validate_document(document, C13_Redrawn(C13_DrawOf(i), c, r))]

C13_PassedAndDetailsSeparate ==
    (Returned /\ KnownType) =>
        \A i \in C13_DrawnChecks :
            LET j == C13_DrawOf(i)
                outcomes == C13_Outcomes(i)
                drawn == DOMAIN outcomes
            IN \* all four combinations of passed and details text
               /\ Cardinality({<<outcomes[d].checks[i].passed,
                                 outcomes[d].checks[i].details>> : d \in drawn}) = 4
               \* passed does not read the random() draw, nor details the choice
               /\ \A r \in RandomTenths :
                     outcomes[tape[2 * j - 1], r].checks[i].passed
                        = result.checks[i].passed
               /\ \A c \in C13_ChoiceIndices :
                     outcomes[c, tape[2 * j]].checks[i].details
                        = result.checks[i].details
               \* whatever the details text, the same passed gives the same verdict
               /\ \A d \in drawn :
                     outcomes[d].checks[i].passed = result.checks[i].passed =>
                        /\ outcomes[d].is_valid = result.is_valid
                        /\ outcomes[d].risk_score = result.risk_score
                        /\ outcomes[d].anomalies = result.anomalies
                        /\ outcomes[d].recommendations = result.recommendations

\* A bank statement whose Balance Calculation passed with the failure text
\* and whose Transaction Pattern Analysis failed with the success text.
C13_Witness ==
    /\ Returned
    /\ document.document_type = BANK_STATEMENT
    /\ result.checks[4].passed
    /\ result.checks[4].details = "Discrepancy detected in balance calculation"
    /\ ~result.checks[5].passed
    /\ result.checks[5].details = "Transaction patterns appear normal"
    /\ ~result.is_valid
    /\ result.anomalies = << "Unusual pattern: Multiple large round-sum deposits detected" >>

=============================================================================
